---- MODULE Spec2Model ----
(***************************************************************************)
(* yaml-verify: the duplicate detector (checkForDuplicates) and the        *)
(* batched validation pipeline (discovery, processFilesInBatches, the      *)
(* summary and exit code) of src/unnamed/part_001, the batched variant of  *)
(* the command line tool.                                                  *)
(*                                                                         *)
(* Two specifications share the module:                                    *)
(*   SpecDetect  applies checkForDuplicates to every document of a bounded *)
(*               family of parsed YAML documents;                          *)
(*   Spec        runs the command's action over a small file system, with  *)
(*               every interleaving of the asynchronous stat, glob and     *)
(*               validateFile completions.                                 *)
(* Signals (the SIGINT handler) and terminal output other than the         *)
(* per-file FAILED lines are outside the model.                            *)
(***************************************************************************)
EXTENDS Integers, Sequences, FiniteSets, TLC

(***************************************************************************)
(* Bounds of the model.                                                    *)
(***************************************************************************)
\* longest sequence value of a top-level field in the documents of SpecDetect
MaxItems == 3
\* longest list of command line paths in Spec
MaxPaths == 3

(***************************************************************************)
(* JavaScript values as yaml.load produces them.  A value is a record      *)
(* [t, v]: t is the type tag and fixes the shape of v.  Scalars keep their *)
(* text in v (numbers as their decimal text, so that 1 and "1" differ      *)
(* only by the tag); a mapping keeps its entries in insertion order; a     *)
(* sequence keeps its elements.                                            *)
(***************************************************************************)
Undefined == [t |-> "undef", v |-> "undefined"]
Null == [t |-> "null", v |-> "null"]
Str(s) == [t |-> "str", v |-> s]
Num(s) == [t |-> "num", v |-> s]
Bool(s) == [t |-> "bool", v |-> s]
Entry(k, val) == [k |-> k, val |-> val]
Map(entries) == [t |-> "map", v |-> entries]
Arr(elems) == [t |-> "seq", v |-> elems]

\* the default recordType, part_001 line 30
noRecordType == "noRecordType"
\* the field with the layout/recordType rule, part_001 line 25
layoutAssignments == "layoutAssignments"

\* JavaScript truthiness, as `data.layoutAssignments` and `||` test it
Truthy(x) ==
    CASE x.t = "undef" -> FALSE
      [] x.t = "null" -> FALSE
      [] x.t = "bool" -> x.v = "true"
      [] x.t = "num" -> x.v \notin {"0", "NaN"}
      [] x.t = "str" -> x.v # ""
      [] OTHER -> TRUE

\* obj.key on a value that is neither undefined nor null (those throw): the
\* entry's value for a mapping that has the key, undefined otherwise
HasKey(obj, key) ==
    obj.t = "map" /\ \E i \in 1..Len(obj.v) : obj.v[i].k = key

Get(obj, key) ==
    IF HasKey(obj, key)
    THEN obj.v[CHOOSE i \in 1..Len(obj.v) : obj.v[i].k = key].val
    ELSE Undefined

\* reading a property of undefined or null raises a TypeError
PropertyReadThrows(obj) == obj.t \in {"undef", "null"}

\* a || b
OrElse(a, b) == IF Truthy(a) THEN a ELSE b

\* `${x}` in a template literal
ToStr(x) ==
    CASE x.t \in {"undef", "null", "bool", "num", "str"} -> x.v
      [] x.t = "map" -> "[object Object]"
      [] OTHER -> "[array]"

\* The key under which a Map or a Set holds a value (SameValueZero): a scalar
\* by type and value, an object by identity (here the index of the element
\* that holds it).
KeyOf(x, index) ==
    IF x.t \in {"map", "seq"} THEN [t |-> "ref", v |-> index] ELSE x

(***************************************************************************)
(* JSON.stringify, as the text it produces, token by token: the keys of a  *)
(* mapping in insertion order, NaN written as null.                        *)
(***************************************************************************)
RECURSIVE JSONstringify(_)
RECURSIVE StringifyEntries(_, _)
RECURSIVE StringifyElems(_, _)
JSONstringify(x) ==
    CASE x.t = "str" -> <<"\"", x.v, "\"">>
      [] x.t = "num" -> IF x.v = "NaN" THEN <<"null">> ELSE <<x.v>>
      [] x.t \in {"null", "bool"} -> <<x.v>>
      [] x.t = "map" -> <<"{">> \o StringifyEntries(x.v, 1) \o <<"}">>
      [] x.t = "seq" -> <<"[">> \o StringifyElems(x.v, 1) \o <<"]">>

StringifyEntries(es, i) ==
    IF i > Len(es) THEN <<>>
    ELSE (IF i > 1 THEN <<",">> ELSE <<>>)
         \o <<"\"", es[i].k, "\"", ":">> \o JSONstringify(es[i].val)
         \o StringifyEntries(es, i + 1)

StringifyElems(xs, i) ==
    IF i > Len(xs) THEN <<>>
    ELSE (IF i > 1 THEN <<",">> ELSE <<>>)
         \o JSONstringify(xs[i]) \o StringifyElems(xs, i + 1)

(***************************************************************************)
(* checkForDuplicates.  Its result is a returned list of messages or a     *)
(* thrown TypeError; an error message is the list of the pieces of its     *)
(* template literal.                                                       *)
(***************************************************************************)
Returned(errs) == [threw |-> FALSE, errors |-> errs, message |-> ""]
Thrown(msg) == [threw |-> TRUE, errors |-> <<>>, message |-> msg]

LayoutPrefix == "Duplicate layout/recordType combination found in 'layoutAssignments': layout='"
EntryPrefix == "Duplicate entry found in '"

LayoutMessage(layout, recordType) ==
    <<LayoutPrefix, ToStr(layout), "', recordType='", ToStr(recordType), "'">>

EntryMessage(key, itemKey) == <<EntryPrefix, key, "': ">> \o itemKey

\* the recordType the layout rule uses for an item, part_001 line 30
RecordTypeOf(item) == OrElse(Get(item, "recordType"), Str(noRecordType))

\* the branch of lines 36-44: report the item, or remember its recordType
IsLayoutDuplicate(recordTypes, recordType, index) ==
    /\ KeyOf(recordType, index) \in recordTypes
    /\ recordType # Str(noRecordType)

\* data.layoutAssignments.forEach of lines 28-46, from element i on.
\* layoutMap is the Map of line 26 as the set of its <<layout, recordType>>
\* pairs: the layout is a key of the Map when some pair holds it.
RECURSIVE LayoutScan(_, _, _, _)
LayoutScan(items, i, layoutMap, errs) ==
    IF i > Len(items) THEN Returned(errs)
    ELSE IF PropertyReadThrows(items[i])
    THEN Thrown("TypeError: Cannot read properties of null (reading 'layout')")
    ELSE LET layout == Get(items[i], "layout")
             recordType == RecordTypeOf(items[i])
             lk == KeyOf(layout, i)
             rk == KeyOf(recordType, i)
             recordTypes == {p[2] : p \in {q \in layoutMap : q[1] = lk}}
         IN  IF ~(\E p \in layoutMap : p[1] = lk)
             THEN LayoutScan(items, i + 1, layoutMap \cup {<<lk, rk>>}, errs)
             ELSE IF IsLayoutDuplicate(recordTypes, recordType, i)
             THEN LayoutScan(items, i + 1, layoutMap,
                             Append(errs, LayoutMessage(layout, recordType)))
             ELSE LayoutScan(items, i + 1, layoutMap \cup {<<lk, rk>>}, errs)

\* lines 24-47
LayoutCheck(data) ==
    LET la == Get(data, layoutAssignments)
    IN  IF ~Truthy(la) THEN Returned(<<>>)
        ELSE IF la.t # "seq"
        THEN Thrown("TypeError: data.layoutAssignments.forEach is not a function")
        ELSE LayoutScan(la.v, 1, {}, <<>>)

\* the key of line 55
ItemKey(item) == JSONstringify(item)

\* value.forEach of lines 54-63, from element i on; seen is the Set of line 52
RECURSIVE EntryScan(_, _, _, _, _)
EntryScan(key, value, i, seen, errs) ==
    IF i > Len(value) THEN errs
    ELSE LET itemKey == ItemKey(value[i])
         IN  IF itemKey \in seen
             THEN EntryScan(key, value, i + 1, seen,
                            Append(errs, EntryMessage(key, itemKey)))
             ELSE EntryScan(key, value, i + 1, seen \cup {itemKey}, errs)

\* the decimal text of an array index, for the keys Object.entries gives a
\* top-level sequence
IndexText(i) ==
    CASE i = 0 -> "0" [] i = 1 -> "1" [] i = 2 -> "2" [] i = 3 -> "3"
      [] i = 4 -> "4" [] OTHER -> "n"

\* Object.entries(data): the entries of a mapping in insertion order, the
\* indexed elements of a sequence, nothing for a number or a boolean
ObjectEntries(data) ==
    CASE data.t = "map" -> data.v
      [] data.t = "seq" ->
            [i \in 1..Len(data.v) |-> Entry(IndexText(i - 1), data.v[i])]
      [] OTHER -> <<>>

\* the condition of line 51
IsGenericField(key, value) == key # layoutAssignments /\ value.t = "seq"

\* Object.entries(data).forEach of lines 50-65, from entry e on
RECURSIVE GenericCheck(_, _, _)
GenericCheck(entries, e, errs) ==
    IF e > Len(entries) THEN errs
    ELSE IF IsGenericField(entries[e].k, entries[e].val)
    THEN GenericCheck(entries, e + 1,
                      EntryScan(entries[e].k, entries[e].val.v, 1, {}, errs))
    ELSE GenericCheck(entries, e + 1, errs)

\* lines 21-68
checkForDuplicates(data) ==
    IF PropertyReadThrows(data)
    THEN (IF data.t = "undef"
          THEN Thrown("TypeError: Cannot read properties of undefined (reading 'layoutAssignments')")
          ELSE Thrown("TypeError: Cannot read properties of null (reading 'layoutAssignments')"))
    ELSE LET first == LayoutCheck(data)
         IN  IF first.threw THEN first
             ELSE Returned(GenericCheck(ObjectEntries(data), 1, first.errors))

(***************************************************************************)
(* The file system of the runs.  Each file has a path, the directories it  *)
(* lies under, its extension, and what readFile and yaml.load make of it.  *)
(***************************************************************************)
Readable(doc) == [readable |-> TRUE, wellFormed |-> TRUE, doc |-> doc]
SyntaxError == [readable |-> TRUE, wellFormed |-> FALSE, doc |-> Undefined]
Unreadable == [readable |-> FALSE, wellFormed |-> FALSE, doc |-> Undefined]

\* items: [1, 2]
DocValid == Map(<<Entry("items", Arr(<<Num("1"), Num("2")>>))>>)
\* items: [{id: 1}, {id: 2}, {id: 1}]
DocDuplicate ==
    Map(<<Entry("items", Arr(<<Map(<<Entry("id", Num("1"))>>),
                               Map(<<Entry("id", Num("2"))>>),
                               Map(<<Entry("id", Num("1"))>>)>>))>>)

File(path, under, ext, content) ==
    [path |-> path, under |-> under, ext |-> ext, content |-> content]

Tree ==
    << File("dir/a.yaml", {"dir"}, "yaml", Readable(DocValid)),
       File("dir/sub/b.yml", {"dir", "dir/sub"}, "yml", Readable(DocDuplicate)),
       File("dir/sub/c.txt", {"dir", "dir/sub"}, "txt", SyntaxError),
       File("empty/readme.txt", {"empty"}, "txt", SyntaxError),
       File("bad.yaml", {}, "yaml", SyntaxError),
       File("blank.yaml", {}, "yaml", Readable(Undefined)),
       File("locked.yaml", {}, "yaml", Unreadable) >>

Directories == {"dir", "dir/sub", "empty"}
FilePaths == {Tree[i].path : i \in 1..Len(Tree)}

\* the paths a command line names; "missing" does not exist
InputPaths ==
    {"missing", "empty", "dir", "dir/sub", "dir/a.yaml", "bad.yaml",
     "blank.yaml", "locked.yaml"}

Exists(path) == path \in Directories \cup FilePaths
IsDirectory(path) == path \in Directories
ContentOf(path) == Tree[CHOOSE i \in 1..Len(Tree) : Tree[i].path = path].content

\* the pattern of line 73, <directory>/**/*.?(yaml|yml): a name that ends in
\* a dot followed by yaml, by yml or by nothing
MatchesPattern(f, directory) ==
    directory \in f.under /\ f.ext \in {"yaml", "yml", ""}

\* findYamlFilesAsync, lines 71-81 (the matches in the order of Tree)
RECURSIVE GlobFrom(_, _)
GlobFrom(directory, i) ==
    IF i > Len(Tree) THEN <<>>
    ELSE (IF MatchesPattern(Tree[i], directory) THEN <<Tree[i].path>> ELSE <<>>)
         \o GlobFrom(directory, i + 1)

findYamlFilesAsync(directory) == GlobFrom(directory, 1)

(***************************************************************************)
(* validateFile, lines 83-95.                                              *)
(***************************************************************************)
\* errors.join('\n')
RECURSIVE Join(_, _)
Join(errs, i) ==
    IF i > Len(errs) THEN <<>>
    ELSE (IF i > 1 THEN <<"\n">> ELSE <<>>) \o errs[i] \o Join(errs, i + 1)

Fulfilled(file) == [file |-> file, status |-> "fulfilled"]
Rejected(file, reason) == [file |-> file, status |-> "rejected", reason |-> reason]

\* what a promise settles to
Resolves(value) == [status |-> "fulfilled", value |-> value]
Rejects(reason) == [status |-> "rejected", reason |-> reason]

\* the try block of lines 85-91: the value it returns or the error it throws
TryValidate(file) ==
    LET c == ContentOf(file)
        r == checkForDuplicates(c.doc)
    IN  IF ~c.readable THEN Rejects(<<"EACCES: permission denied">>)
        ELSE IF ~c.wellFormed THEN Rejects(<<"YAMLException">>)
        ELSE IF r.threw THEN Rejects(<<r.message>>)
        ELSE IF Len(r.errors) > 0
        THEN Resolves(Rejected(file, Join(r.errors, 1)))
        ELSE Resolves(Fulfilled(file))

\* validateFile without the catch of lines 92-94
validateFileNoCatch(file) == TryValidate(file)

validateFile(file) ==
    LET t == TryValidate(file)
    IN  IF t.status = "rejected"
        THEN Resolves(Rejected(file, t.reason))     \* the catch of lines 92-94
        ELSE t

(***************************************************************************)
(* The state of a run of the command's action, lines 137-170.              *)
(***************************************************************************)
VARIABLES
    filePaths,          \* the command line's paths
    batchSize,          \* the batchSize of processFilesInBatches
    pc,                 \* where the action is
    stats,              \* per path: the state of its promise of line 139
    fileArrays,         \* per path: the array its promise resolved to
    allFiles,           \* line 148
    index,              \* line 98
    results,            \* line 99
    pending,            \* positions of allFiles whose validateFile is in flight
    settled,            \* position -> what its validateFile promise settled to
    calls,              \* history: the positions validateFile was called for
    validationFailed,   \* line 15
    totalErrors,        \* line 16
    totalFiles,         \* line 17
    failedLines,        \* the files of the FAILED lines written, in order
    exitCode,           \* -1 while the process runs
    exitVia,            \* what ended the process
    data,               \* SpecDetect: the document given to checkForDuplicates
    detected,           \* SpecDetect: what checkForDuplicates gave
    dpc                 \* SpecDetect: "input" or "done"

pvars == <<filePaths, batchSize, pc, stats, fileArrays, allFiles, index,
           results, pending, settled, calls, validationFailed, totalErrors,
           totalFiles, failedLines, exitCode, exitVia>>
dvars == <<data, detected, dpc>>
vars == <<pvars, dvars>>

\* the default of line 97
batchSizeDefault == 50
BatchSizes == {1, 2, batchSizeDefault}

RECURSIVE SeqsUpTo(_, _)
SeqsUpTo(S, n) ==
    IF n = 0 THEN {<<>>}
    ELSE LET shorter == SeqsUpTo(S, n - 1)
         IN  shorter \cup {Append(s, x) : s \in {t \in shorter : Len(t) = n - 1}, x \in S}

NoSettled == [k \in {} |-> Resolves(Fulfilled(""))]

InitPipeline ==
    /\ filePaths \in SeqsUpTo(InputPaths, MaxPaths) \ {<<>>}
    /\ batchSize \in BatchSizes
    /\ pc = "discover"
    /\ stats = [i \in 1..Len(filePaths) |-> "stat"]
    /\ fileArrays = [i \in 1..Len(filePaths) |-> <<>>]
    /\ allFiles = <<>>
    /\ index = 0
    /\ results = <<>>
    /\ pending = {}
    /\ settled = NoSettled
    /\ calls = <<>>
    /\ validationFailed = FALSE
    /\ totalErrors = 0
    /\ totalFiles = 0
    /\ failedLines = <<>>
    /\ exitCode = -1
    /\ exitVia = "running"

IdleDetect ==
    /\ data = Undefined
    /\ detected = Returned(<<>>)
    /\ dpc = "idle"

Init == InitPipeline /\ IdleDetect

\* fsPromises.stat settles for path i, lines 140-144
StatSettles(i) ==
    /\ pc = "discover"
    /\ stats[i] = "stat"
    /\ IF ~Exists(filePaths[i])
       THEN stats' = [stats EXCEPT ![i] = "rejected"] /\ UNCHANGED fileArrays
       ELSE IF IsDirectory(filePaths[i])
       THEN stats' = [stats EXCEPT ![i] = "glob"] /\ UNCHANGED fileArrays
       ELSE /\ stats' = [stats EXCEPT ![i] = "resolved"]
            /\ fileArrays' = [fileArrays EXCEPT ![i] = <<filePaths[i]>>]
    /\ UNCHANGED <<filePaths, batchSize, pc, allFiles, index, results, pending,
                   settled, calls, validationFailed, totalErrors, totalFiles,
                   failedLines, exitCode, exitVia, dvars>>

\* findYamlFilesAsync resolves for directory i, line 142
GlobSettles(i) ==
    /\ pc = "discover"
    /\ stats[i] = "glob"
    /\ stats' = [stats EXCEPT ![i] = "resolved"]
    /\ fileArrays' = [fileArrays EXCEPT ![i] = findYamlFilesAsync(filePaths[i])]
    /\ UNCHANGED <<filePaths, batchSize, pc, allFiles, index, results, pending,
                   settled, calls, validationFailed, totalErrors, totalFiles,
                   failedLines, exitCode, exitVia, dvars>>

\* Promise.all of line 147 rejects with the first rejection: nothing in the
\* action catches it, and the unhandled rejection ends the process with code 1
DiscoveryRejects ==
    /\ pc = "discover"
    /\ \E i \in 1..Len(filePaths) : stats[i] = "rejected"
    /\ pc' = "exited"
    /\ exitCode' = 1
    /\ exitVia' = "unhandledRejection"
    /\ UNCHANGED <<filePaths, batchSize, stats, fileArrays, allFiles, index,
                   results, pending, settled, calls, validationFailed,
                   totalErrors, totalFiles, failedLines, dvars>>

\* allFilesArrays.flat(), line 148
RECURSIVE Flat(_, _)
Flat(arrays, i) ==
    IF i > Len(arrays) THEN <<>> ELSE arrays[i] \o Flat(arrays, i + 1)

\* Promise.all of line 147 resolves; processFilesInBatches starts, lines 98-99
DiscoveryResolves ==
    /\ pc = "discover"
    /\ \A i \in 1..Len(filePaths) : stats[i] = "resolved"
    /\ allFiles' = Flat(fileArrays, 1)
    /\ index' = 0
    /\ results' = <<>>
    /\ pc' = "loop"
    /\ UNCHANGED <<filePaths, batchSize, stats, fileArrays, pending, settled,
                   calls, validationFailed, totalErrors, totalFiles,
                   failedLines, exitCode, exitVia, dvars>>

Min(a, b) == IF a < b THEN a ELSE b

\* files.slice(index, index + batchSize), line 103, as the positions (from 1)
\* of allFiles it holds
BatchOf(files, idx, size) == (idx + 1)..Min(idx + size, Len(files))

\* line 106 with the index moved one too far
NextIndexSkips(idx, size) == idx + size + 1

\* line 106
NextIndex(idx, size) == idx + size

\* line 105 with Promise.race in the place of Promise.allSettled: the await
\* resumes once one promise of the batch has settled
AnySettled(batch, inFlight) == batch \ inFlight # {}

\* Promise.allSettled of line 105 settles once every promise of the batch has
AllSettled(batch, inFlight) == batch \cap inFlight = {}

RECURSIVE SettledOf(_, _, _)
SettledOf(outcomes, lo, hi) ==
    IF lo > hi THEN <<>>
    ELSE (IF lo \in DOMAIN outcomes THEN <<outcomes[lo]>> ELSE <<>>)
         \o SettledOf(outcomes, lo + 1, hi)

\* lines 102-104: the loop is entered and every file of the batch gets its
\* validateFile call, which suspends at its readFile
StartBatch ==
    /\ pc = "loop"
    /\ index < Len(allFiles)
    /\ LET batch == BatchOf(allFiles, index, batchSize)
       IN  /\ pending' = pending \cup batch
           /\ calls' = calls \o [j \in 1..Cardinality(batch) |-> index + j]
    /\ pc' = "await"
    /\ UNCHANGED <<filePaths, batchSize, stats, fileArrays, allFiles, index,
                   results, settled, validationFailed, totalErrors, totalFiles,
                   failedLines, exitCode, exitVia, dvars>>

\* the validateFile call for position k runs to its end, lines 85-94
ValidateSettles(k) ==
    /\ k \in pending
    /\ pc \in {"loop", "await"}
    /\ pending' = pending \ {k}
    /\ settled' = [j \in DOMAIN settled \cup {k} |->
                      IF j = k THEN validateFile(allFiles[k]) ELSE settled[j]]
    /\ UNCHANGED <<filePaths, batchSize, pc, stats, fileArrays, allFiles, index,
                   results, calls, validationFailed, totalErrors, totalFiles,
                   failedLines, exitCode, exitVia, dvars>>

\* lines 105-106: the await resumes with the batch's outcomes in batch order
BatchSettles ==
    /\ pc = "await"
    /\ AllSettled(BatchOf(allFiles, index, batchSize), pending)
    /\ results' = results \o SettledOf(settled, index + 1,
                                       Min(index + batchSize, Len(allFiles)))
    /\ index' = NextIndex(index, batchSize)
    /\ pc' = "loop"
    /\ UNCHANGED <<filePaths, batchSize, stats, fileArrays, allFiles, pending,
                   settled, calls, validationFailed, totalErrors, totalFiles,
                   failedLines, exitCode, exitVia, dvars>>

\* one round of results.forEach, lines 110-129, on the tallies t.  A result
\* whose promise rejected has no value: reading result.value.status throws.
PassedResult(result) ==
    result.status = "fulfilled" /\ result.value.status = "fulfilled"

FailedResult(result) ==
    result.status = "fulfilled" /\ result.value.status = "rejected"

ReportOne(t, result) ==
    IF PassedResult(result)
    THEN [t EXCEPT !.totalFiles = @ + 1]
    ELSE IF result.status # "fulfilled"
    THEN [t EXCEPT !.totalFiles = @ + 1, !.threw = TRUE]
    ELSE IF FailedResult(result)
    THEN [t EXCEPT !.totalFiles = @ + 1, !.totalErrors = @ + 1,
                   !.validationFailed = TRUE,
                   !.failedLines = Append(@, result.value.file)]
    ELSE [t EXCEPT !.totalFiles = @ + 1]

RECURSIVE ReportFrom(_, _, _)
ReportFrom(t, rs, i) ==
    IF i > Len(rs) \/ t.threw THEN t
    ELSE ReportFrom(ReportOne(t, rs[i]), rs, i + 1)

\* lines 109-129, and the catch of lines 150-153 when the loop throws
Report ==
    /\ pc = "loop"
    /\ index >= Len(allFiles)
    /\ LET t == ReportFrom([totalFiles |-> totalFiles, totalErrors |-> totalErrors,
                            validationFailed |-> validationFailed,
                            failedLines |-> failedLines, threw |-> FALSE],
                           results, 1)
       IN  /\ totalFiles' = t.totalFiles
           /\ totalErrors' = t.totalErrors
           /\ validationFailed' = t.validationFailed
           /\ failedLines' = t.failedLines
           /\ IF t.threw
              THEN pc' = "exited" /\ exitCode' = 1 /\ exitVia' = "catch"
              ELSE pc' = "summary" /\ UNCHANGED <<exitCode, exitVia>>
    /\ UNCHANGED <<filePaths, batchSize, stats, fileArrays, allFiles, index,
                   results, pending, settled, calls, dvars>>

\* lines 160-169 without the process.exit(1) of line 164
ExitCodeIgnoresFailures(failed) == 0

\* lines 160-169: process.exit(1) when a validation failed; otherwise the
\* action returns and the process ends with code 0
ExitCodeOf(failed) == IF failed THEN 1 ELSE 0

Summary ==
    /\ pc = "summary"
    /\ pc' = "exited"
    /\ exitCode' = ExitCodeOf(validationFailed)
    /\ exitVia' = "summary"
    /\ UNCHANGED <<filePaths, batchSize, stats, fileArrays, allFiles, index,
                   results, pending, settled, calls, validationFailed,
                   totalErrors, totalFiles, failedLines, dvars>>

Next ==
    \/ \E i \in 1..Len(filePaths) : StatSettles(i)
    \/ \E i \in 1..Len(filePaths) : GlobSettles(i)
    \/ DiscoveryRejects
    \/ DiscoveryResolves
    \/ StartBatch
    \/ \E k \in pending : ValidateSettles(k)
    \/ BatchSettles
    \/ Report
    \/ Summary

Spec == Init /\ [][Next]_vars

(***************************************************************************)
(* SpecDetect: checkForDuplicates on a bounded family of documents.        *)
(***************************************************************************)
\* elements of layoutAssignments: a layout, and a recordType that is absent,
\* a name, the default's own text, or the empty string
RecordTypeEntries ==
    { <<>>, <<Entry("recordType", Str("x"))>>,
      <<Entry("recordType", Str(noRecordType))>>,
      <<Entry("recordType", Str(""))>> }

LayoutItems ==
    {Map(<<Entry("layout", Str(l))>> \o r) : l \in {"A", "B"}, r \in RecordTypeEntries}

\* elements of the other sequences: scalars (1 and "1", null and NaN) and
\* mappings, two of them with the same pairs in a different key order
GenericItems ==
    { Num("1"), Str("1"), Null, Num("NaN"),
      Map(<<Entry("id", Num("1"))>>), Map(<<Entry("id", Num("2"))>>),
      Map(<<Entry("a", Num("1")), Entry("b", Num("2"))>>),
      Map(<<Entry("b", Num("2")), Entry("a", Num("1"))>>) }

\* values of a field that is no sequence
NonSequenceValues ==
    {Str("A"), Num("0"), Null, Map(<<Entry("layout", Str("A"))>>)}

SmallLayoutSeqs ==
    SeqsUpTo({Map(<<Entry("layout", Str("A")), Entry("recordType", Str("x"))>>),
              Map(<<Entry("layout", Str("A"))>>)}, 2)
SmallGenericSeqs == SeqsUpTo({Num("1"), Map(<<Entry("id", Num("1"))>>)}, 2)

OneFieldDocuments ==
    {Map(<<Entry(layoutAssignments, Arr(s))>>) : s \in SeqsUpTo(LayoutItems, MaxItems)}
    \cup {Map(<<Entry("items", Arr(s))>>) : s \in SeqsUpTo(GenericItems, MaxItems)}
    \cup {Map(<<Entry(k, x)>>) : k \in {layoutAssignments, "items"}, x \in NonSequenceValues}

TwoFieldDocuments ==
    {Map(<<Entry("items", Arr(s)), Entry("tags", Arr(u))>>) :
        s \in SmallGenericSeqs, u \in SmallGenericSeqs}
    \cup {Map(<<Entry(layoutAssignments, Arr(s)), Entry("items", Arr(u))>>) :
            s \in SmallLayoutSeqs, u \in SmallGenericSeqs}
    \cup {Map(<<Entry("items", Arr(u)), Entry(layoutAssignments, Arr(s))>>) :
            s \in SmallLayoutSeqs, u \in SmallGenericSeqs}
    \cup {Map(<<Entry(layoutAssignments, x), Entry("items", Arr(u))>>) :
            x \in NonSequenceValues, u \in SmallGenericSeqs}

\* what yaml.load gives for an empty file, for `~`, for a scalar, for a
\* top-level sequence, for `{}`, and for a layoutAssignments with a null element
OtherDocuments ==
    { Undefined, Null, Str("text"), Num("7"), Arr(<<Num("1"), Num("1")>>),
      Map(<<>>), Map(<<Entry(layoutAssignments, Arr(<<Null>>))>>) }

Documents == OneFieldDocuments \cup TwoFieldDocuments \cup OtherDocuments

IdlePipeline ==
    /\ filePaths = <<>>
    /\ batchSize = batchSizeDefault
    /\ pc = "idle"
    /\ stats = <<>>
    /\ fileArrays = <<>>
    /\ allFiles = <<>>
    /\ index = 0
    /\ results = <<>>
    /\ pending = {}
    /\ settled = NoSettled
    /\ calls = <<>>
    /\ validationFailed = FALSE
    /\ totalErrors = 0
    /\ totalFiles = 0
    /\ failedLines = <<>>
    /\ exitCode = -1
    /\ exitVia = "running"

InitDetect ==
    /\ IdlePipeline
    /\ data \in Documents
    /\ detected = Returned(<<>>)
    /\ dpc = "input"

\* const errors = checkForDuplicates(data), line 87
Detect ==
    /\ dpc = "input"
    /\ detected' = checkForDuplicates(data)
    /\ dpc' = "done"
    /\ UNCHANGED <<data, pvars>>

NextDetect == Detect

SpecDetect == InitDetect /\ [][NextDetect]_vars

(***************************************************************************)
(* Properties of the pipeline, checked under Spec.                         *)
(***************************************************************************)
\* processFilesInBatches has left its loop: it reports, or has reported
Reporting ==
    \/ pc = "loop" /\ index >= Len(allFiles)
    \/ pc = "summary"
    \/ pc = "exited" /\ exitVia \in {"summary", "catch"}

TimesCalled(k) == Cardinality({n \in DOMAIN calls : calls[n] = k})

\* C1: when processFilesInBatches reports, results holds exactly one outcome
\* per position of the file list, the outcome of that position's file, and
\* validateFile was called exactly once for each position: no outcome is
\* dropped and none is duplicated, whatever the batch size and the order in
\* which the validations completed.
C1_OneOutcomePerFile ==
    Reporting =>
        /\ Len(results) = Len(allFiles)
        /\ Len(calls) = Len(allFiles)
        /\ \A k \in 1..Len(allFiles) :
              /\ TimesCalled(k) = 1
              /\ k \in DOMAIN settled
              /\ k <= Len(results)
              /\ results[k] = settled[k]
              /\ results[k].status = "fulfilled"
              /\ results[k].value.file = allFiles[k]

\* more files than the batch size, in at least two batches, all reported
C1_Witness ==
    /\ pc = "summary"
    /\ batchSize = 2
    /\ Len(allFiles) >= 3
    /\ Len(results) = Len(allFiles)

\* C2: at every moment at most batchSize validateFile calls are in flight,
\* every call in flight belongs to the batch at the current index, and none
\* is in flight when the loop is about to start the next batch.
C2_BoundedInFlight ==
    /\ Cardinality(pending) <= batchSize
    /\ pending \subseteq BatchOf(allFiles, index, batchSize)
    /\ (pc = "loop" => pending = {})

\* a second batch is in flight at the full cap
C2_Witness ==
    /\ pc = "await"
    /\ index > 0
    /\ batchSize = 2
    /\ Cardinality(pending) = batchSize

IsOutcome(o, file) ==
    /\ o.file = file
    /\ \/ o.status = "fulfilled"
       \/ o.status = "rejected" /\ Len(o.reason) > 0

\* C3: every validateFile promise resolves (it never rejects) to an outcome
\* of its file, 'fulfilled' or 'rejected' with a reason, whether the read
\* failed, the parse failed, checkForDuplicates threw or found violations;
\* and a run whose discovery succeeded validates and counts every file and
\* never ends in the catch of processFilesInBatches, whatever files failed.
C3_FailuresAreOutcomes ==
    /\ \A k \in DOMAIN settled :
          /\ settled[k].status = "fulfilled"
          /\ IsOutcome(settled[k].value, allFiles[k])
    /\ exitVia # "catch"
    /\ (pc = "summary" \/ (pc = "exited" /\ exitVia = "summary")) =>
          /\ totalFiles = Len(allFiles)
          /\ \A k \in 1..Len(allFiles) : k \in DOMAIN settled

\* a file of the first batch failed and a file of a later batch passed
C3_Witness ==
    /\ pc = "summary"
    /\ totalFiles = Len(allFiles)
    /\ \E i, j \in 1..Len(results) :
          /\ i + batchSize <= j
          /\ FailedResult(results[i])
          /\ PassedResult(results[j])
    /\ \E i \in 1..Len(results) :
          FailedResult(results[i]) /\ ~ContentOf(allFiles[i]).readable
    /\ \E i \in 1..Len(results) :
          /\ FailedResult(results[i])
          /\ ContentOf(allFiles[i]).wellFormed
          /\ checkForDuplicates(ContentOf(allFiles[i]).doc).threw

\* an outcome made by the catch of validateFile: the error's message
IsErrorOutcome(o) ==
    /\ o.status = "rejected"
    /\ Len(o.reason) = 1
    /\ o.reason[1] \notin {LayoutPrefix, EntryPrefix}

\* an outcome that carries a non-empty list of violations
IsViolationOutcome(o) ==
    /\ o.status = "rejected"
    /\ Len(o.reason) > 1
    /\ o.reason[1] \in {LayoutPrefix, EntryPrefix}

FailedOutcomes ==
    {k \in 1..Len(results) :
        /\ results[k].status = "fulfilled"
        /\ IsErrorOutcome(results[k].value) \/ IsViolationOutcome(results[k].value)}

\* C4: after a run over the discovered files, totalFiles is the number of
\* files, totalErrors is the number of files whose outcome is an error (of
\* the read, the parse or the check) or a non-empty violation list, and the
\* exit code is non-zero exactly when totalErrors > 0.
C4_TotalsAndExitCode ==
    (pc = "exited" /\ exitVia = "summary") =>
        /\ totalFiles = Len(allFiles)
        /\ totalErrors = Cardinality(FailedOutcomes)
        /\ Len(failedLines) = totalErrors
        /\ (exitCode # 0 <=> totalErrors > 0)
        /\ exitCode \in {0, 1}

\* one valid file, one with a syntax error, one with one duplicate
C4_Witness ==
    /\ pc = "exited"
    /\ exitVia = "summary"
    /\ allFiles = <<"dir/a.yaml", "bad.yaml", "dir/sub/b.yml">>
    /\ totalFiles = 3
    /\ totalErrors = 2
    /\ exitCode = 1
    /\ PassedResult(results[1])
    /\ IsErrorOutcome(results[2].value)
    /\ IsViolationOutcome(results[3].value)

\* the files an existing path stands for
ExpansionOf(path) ==
    IF IsDirectory(path) THEN findYamlFilesAsync(path) ELSE <<path>>

ZeroFilesResolved ==
    \A i \in 1..Len(filePaths) :
        ~Exists(filePaths[i]) \/ ExpansionOf(filePaths[i]) = <<>>

\* C5: a run whose paths resolve to no file (each is missing, or a
\* directory without a matching file) ends with exit code 1 and without a
\* validateFile call.
C5_EmptyInputExitsOne ==
    (pc = "exited" /\ ZeroFilesResolved) => (exitCode = 1 /\ calls = <<>>)

ReportedFiles ==
    {results[k].value.file : k \in {j \in 1..Len(results) : results[j].status = "fulfilled"}}

\* C6: when the run has ended, every file of every path that exists has been
\* validated and reported, also when another path is missing.
C6_MissingPathIsSkipped ==
    pc = "exited" =>
        \A i \in 1..Len(filePaths) :
            Exists(filePaths[i]) =>
                \A n \in 1..Len(ExpansionOf(filePaths[i])) :
                    ExpansionOf(filePaths[i])[n] \in ReportedFiles

\* what holds instead: a missing path ends the run with code 1 before any
\* validateFile call; without one, every file is validated and reported
DiscoveryAllOrNothing ==
    pc = "exited" =>
        IF \E i \in 1..Len(filePaths) : ~Exists(filePaths[i])
        THEN exitVia = "unhandledRejection" /\ exitCode = 1 /\ calls = <<>>
        ELSE \A i \in 1..Len(filePaths) :
                \A n \in 1..Len(ExpansionOf(filePaths[i])) :
                    ExpansionOf(filePaths[i])[n] \in ReportedFiles

(***************************************************************************)
(* Properties of checkForDuplicates, checked under SpecDetect.             *)
(***************************************************************************)
Done == dpc = "done"

RECURSIVE Ascending(_)
Ascending(S) ==
    IF S = {} THEN <<>>
    ELSE LET m == CHOOSE x \in S : \A y \in S : x <= y
         IN  <<m>> \o Ascending(S \ {m})

IsLayoutMessage(m) == m[1] = LayoutPrefix
EntryMessagesFor(key) ==
    SelectSeq(detected.errors, LAMBDA m : m[1] = EntryPrefix /\ m[2] = key)

\* data.layoutAssignments is a sequence of mappings
HasLayoutSequence ==
    /\ data.t = "map"
    /\ Get(data, layoutAssignments).t = "seq"
    /\ \A i \in 1..Len(Get(data, layoutAssignments).v) :
          Get(data, layoutAssignments).v[i].t = "map"

\* the recordType as the claim reads it: the default only when absent
StatedRecordType(item) ==
    IF HasKey(item, "recordType") THEN Get(item, "recordType") ELSE Str(noRecordType)

StatedLayoutDuplicates(items) ==
    {j \in 1..Len(items) :
        \E i \in 1..(j - 1) :
            /\ Get(items[i], "layout") = Get(items[j], "layout")
            /\ StatedRecordType(items[i]) = StatedRecordType(items[j])
            /\ StatedRecordType(items[j]) # Str(noRecordType)}

\* C7: for a layoutAssignments sequence of mappings, the layout violations
\* are, in index order, those of the elements j for which an earlier element
\* has the same layout and the same recordType, the recordType not being
\* 'noRecordType' (which an absent recordType counts as).
C7_LayoutRule ==
    (Done /\ HasLayoutSequence) =>
        LET items == Get(data, layoutAssignments).v
            dups == Ascending(StatedLayoutDuplicates(items))
        IN  /\ ~detected.threw
            /\ SelectSeq(detected.errors, IsLayoutMessage)
                 = [n \in 1..Len(dups) |->
                       LayoutMessage(Get(items[dups[n]], "layout"),
                                     StatedRecordType(items[dups[n]]))]

\* what holds instead: the same with the recordType of line 30, where every
\* falsy recordType (absent, null, '', 0, false) is the default
EffectiveLayoutDuplicates(items) ==
    {j \in 1..Len(items) :
        \E i \in 1..(j - 1) :
            /\ Get(items[i], "layout") = Get(items[j], "layout")
            /\ RecordTypeOf(items[i]) = RecordTypeOf(items[j])
            /\ RecordTypeOf(items[j]) # Str(noRecordType)}

LayoutRuleWithFalsyDefault ==
    (Done /\ HasLayoutSequence) =>
        LET items == Get(data, layoutAssignments).v
            dups == Ascending(EffectiveLayoutDuplicates(items))
        IN  /\ ~detected.threw
            /\ SelectSeq(detected.errors, IsLayoutMessage)
                 = [n \in 1..Len(dups) |->
                       LayoutMessage(Get(items[dups[n]], "layout"),
                                     RecordTypeOf(items[dups[n]]))]

GenericFields ==
    {e \in 1..Len(ObjectEntries(data)) :
        IsGenericField(ObjectEntries(data)[e].k, ObjectEntries(data)[e].val)}

DuplicateIndexes(value) ==
    {j \in 1..Len(value) :
        \E i \in 1..(j - 1) : JSONstringify(value[i]) = JSONstringify(value[j])}

ExpectedEntryMessages(key, value) ==
    LET dups == Ascending(DuplicateIndexes(value))
    IN  [n \in 1..Len(dups) |-> EntryMessage(key, JSONstringify(value[dups[n]]))]

GenericRuleHolds ==
    \A e \in GenericFields :
        EntryMessagesFor(ObjectEntries(data)[e].k)
          = ExpectedEntryMessages(ObjectEntries(data)[e].k, ObjectEntries(data)[e].val.v)

\* C8: for every top-level sequence field of a mapping other than
\* layoutAssignments, the violations for the field are, in index order, one
\* for each element whose serialization equals that of an earlier element,
\* and no other.
C8_GenericRule == (Done /\ data.t = "map") => GenericRuleHolds

\* what holds instead: the same whenever checkForDuplicates returns
GenericRuleWhenReturned ==
    (Done /\ data.t = "map" /\ ~detected.threw) => GenericRuleHolds

SamePairs(a, b) ==
    /\ a.t = "map"
    /\ b.t = "map"
    /\ {a.v[i] : i \in 1..Len(a.v)} = {b.v[i] : i \in 1..Len(b.v)}

\* C9: when checkForDuplicates returns, an element of a generic sequence
\* that is a mapping with the same key/value pairs as an earlier element,
\* in whatever key order, has a violation.
C9_KeyOrderInsensitive ==
    (Done /\ data.t = "map" /\ ~detected.threw) =>
        \A e \in GenericFields :
            LET key == ObjectEntries(data)[e].k
                value == ObjectEntries(data)[e].val.v
            IN  \A j \in 1..Len(value) :
                    (\E i \in 1..(j - 1) : SamePairs(value[i], value[j])) =>
                        \E n \in 1..Len(detected.errors) :
                            detected.errors[n]
                              = EntryMessage(key, JSONstringify(value[j]))

\* the document is no sequence and has no sequence-valued top-level field
NoSequenceField ==
    /\ data.t # "seq"
    /\ data.t = "map" => \A i \in 1..Len(data.v) : data.v[i].val.t # "seq"

\* C10: for a document without a sequence-valued top-level field,
\* checkForDuplicates returns an empty list.
C10_NoSequenceNoViolation ==
    (Done /\ NoSequenceField) => (~detected.threw /\ detected.errors = <<>>)

(***************************************************************************)
(* Properties of discovery, checked under Spec.                            *)
(***************************************************************************)
\* C11: once discovery has resolved, the file list holds no path twice,
\* whatever paths the command line names (so that each file gets one
\* outcome and is counted once).
C11_FileListHasNoDuplicates ==
    pc \in {"loop", "await", "summary", "exited"} =>
        \A i, j \in 1..Len(allFiles) : allFiles[i] = allFiles[j] => i = j

\* what holds instead: the list is the concatenation, in command line
\* order, of what each path stands for, and only the matches of one
\* directory are free of duplicates
FileListIsConcatenation ==
    (pc \in {"loop", "await", "summary"} \/ (pc = "exited" /\ exitVia = "summary")) =>
        /\ allFiles = Flat([i \in 1..Len(filePaths) |-> ExpansionOf(filePaths[i])], 1)
        /\ \A p \in 1..Len(filePaths) :
              \A i, j \in 1..Len(ExpansionOf(filePaths[p])) :
                  ExpansionOf(filePaths[p])[i] = ExpansionOf(filePaths[p])[j] => i = j

====
